---- MODULE Spec2Model ----
(***************************************************************************)
(* Model of the genetic-algorithm library of src/lib.rs: the engine        *)
(* GeneticAlgorithm::evolve, the reference operators TournamentSelection,  *)
(* SinglePointCrossover and GaussianMutation, and the reference candidate  *)
(* MyIndividual.                                                           *)
(*                                                                         *)
(* A gene (f64) is a multiple of 1/16 (0.0625), written as the integer     *)
(* multiplier, or NaN: on these values f64 addition is exact.  An          *)
(* individual is the sequence of its genes.  Indices drawn by the random   *)
(* source are 0-based as in the source; sequences are 1-based.             *)
(***************************************************************************)
EXTENDS Integers, Sequences, FiniteSets, TLC

\* ---------------------------------------------------------------- bounds
MaxN == 3
MaxGenerations == 2
MaxTournament == 2
TapeLen == 3
MaxRaw == 2
MaxGenes == 3
MaxParents == 4

\* ------------------------------------------------------------------- f64
\* The not-a-number value of f64.
NaN == -9999

\* f64 addition of two multiples of 1/16, which is exact: no rounding; NaN
\* is absorbing.
AddF64(a, b) == IF a = NaN \/ b = NaN THEN NaN ELSE a + b

\* Mutant of PartialCmp: NaN is ordered (equal to everything).
PartialCmpTotal(a, b) ==
    IF a = NaN \/ b = NaN THEN "Equal"
    ELSE IF a < b THEN "Less"
    ELSE IF a = b THEN "Equal"
    ELSE "Greater"

\* f64::partial_cmp: None when either side is NaN.
PartialCmp(a, b) ==
    IF a = NaN \/ b = NaN THEN "None"
    ELSE IF a < b THEN "Less"
    ELSE IF a = b THEN "Equal"
    ELSE "Greater"

\* --------------------------------------------------------- random source
\* The explicitly passed random source R.  Its state is the cyclic stream of
\* raw values it will produce; a seed is such a stream.
Tapes == [1..TapeLen -> 0..MaxRaw]

\* rng.gen_range(0..n): one raw value reduced to the range, the state advanced.
GenRange(r, n) ==
    [value |-> Head(r) % n, rng |-> Tail(r) \o <<Head(r)>>]

\* rng.gen_bool(p), p in tenths: the outcomes the Bernoulli trial can have.
\* A p outside [0, 1] (NaN included) is no probability: gen_bool panics.
GenBool(p) ==
    IF p < 0 \/ p > 10 THEN [ok |-> FALSE, values |-> {}]
    ELSE [ok |-> TRUE,
          values |-> IF p = 0 THEN {FALSE} ELSE IF p = 10 THEN {TRUE} ELSE BOOLEAN]

\* thread_rng().gen_range(-0.1..0.1): of the values of the half-open interval
\* the multiples of 1/16, -0.0625, 0.0 and 0.0625, each of which the sampler
\* returns for some raw value.
MutOffsets == {-1, 0, 1}

\* ------------------------------------------------------------ MyIndividual
RECURSIVE SumGenes(_, _)
SumGenes(genes, acc) ==
    IF genes = <<>> THEN acc ELSE SumGenes(Tail(genes), AddF64(acc, Head(genes)))

\* MyIndividual::fitness: the sum of the genes.
Fitness(individual) == SumGenes(individual, 0)

\* Mutant of IndividualCrossover: the split point is rounded up.
IndividualCrossoverCeil(self, other) ==
    LET mid == (Len(self) + 1) \div 2 IN
    IF mid > Len(other)
    THEN [ok |-> FALSE, child1 |-> <<>>, child2 |-> <<>>]
    ELSE [ok |-> TRUE,
          child1 |-> SubSeq(self, 1, mid) \o SubSeq(other, mid + 1, Len(other)),
          child2 |-> SubSeq(other, 1, mid) \o SubSeq(self, mid + 1, Len(self))]

\* Mutant of IndividualCrossover: the two parts of a child change places.
IndividualCrossoverRotated(self, other) ==
    LET mid == Len(self) \div 2 IN
    IF mid > Len(other)
    THEN [ok |-> FALSE, child1 |-> <<>>, child2 |-> <<>>]
    ELSE [ok |-> TRUE,
          child1 |-> SubSeq(other, mid + 1, Len(other)) \o SubSeq(self, 1, mid),
          child2 |-> SubSeq(self, mid + 1, Len(self)) \o SubSeq(other, 1, mid)]

\* MyIndividual::crossover: the split point is half of self's gene count; a
\* slice of `other` that starts or ends beyond its length panics.
IndividualCrossover(self, other) ==
    LET mid == Len(self) \div 2 IN
    IF mid > Len(other)
    THEN [ok |-> FALSE, child1 |-> <<>>, child2 |-> <<>>]
    ELSE [ok |-> TRUE,
          child1 |-> SubSeq(self, 1, mid) \o SubSeq(other, mid + 1, Len(other)),
          child2 |-> SubSeq(other, 1, mid) \o SubSeq(self, mid + 1, Len(self))]

\* Mutant of IndividualMutate: every gene is perturbed, each by the offset.
IndividualMutateAll(individual) ==
    {[j \in 1..Len(individual) |-> AddF64(individual[j], d)] : d \in MutOffsets}

\* MyIndividual::mutate: one gene position chosen by the ambient source is
\* perturbed by an ambient offset; no gene, no change.  The set of outcomes.
IndividualMutate(individual) ==
    IF Len(individual) = 0 THEN {individual}
    ELSE {[individual EXCEPT ![j] = AddF64(@, d)] :
              j \in 1..Len(individual), d \in MutOffsets}

\* ---------------------------------------------------- TournamentSelection
\* (0..tournament_size).map(|_| rng.gen_range(0..population.len())).collect()
RECURSIVE DrawTournament(_, _, _, _)
DrawTournament(r, n, k, acc) ==
    IF k = 0 THEN [tournament |-> acc, rng |-> r]
    ELSE LET g == GenRange(r, n)
         IN DrawTournament(g.rng, n, k - 1, Append(acc, g.value))

\* Iterator::max_by with the closure of line 127: a reduce that keeps the
\* later element unless the earlier one compares Greater.  Indexing
\* fitness_values out of bounds panics, and so does unwrap on a None ordering.
RECURSIVE MaxByFrom(_, _, _, _)
MaxByFrom(tournament, fitness_values, i, best) ==
    IF i > Len(tournament) THEN [status |-> "Some", index |-> best]
    ELSE LET y == tournament[i] IN
         IF best + 1 > Len(fitness_values) \/ y + 1 > Len(fitness_values)
         THEN [status |-> "panic", index |-> 0]
         ELSE LET ord == PartialCmp(fitness_values[best + 1], fitness_values[y + 1])
              IN IF ord = "None" THEN [status |-> "panic", index |-> 0]
                 ELSE MaxByFrom(tournament, fitness_values, i + 1,
                                IF ord = "Greater" THEN best ELSE y)

\* Mutant of MaxBy: the first of several maximal draws wins.
RECURSIVE MaxByFirstFrom(_, _, _, _)
MaxByFirstFrom(tournament, fitness_values, i, best) ==
    IF i > Len(tournament) THEN [status |-> "Some", index |-> best]
    ELSE LET y == tournament[i] IN
         IF best + 1 > Len(fitness_values) \/ y + 1 > Len(fitness_values)
         THEN [status |-> "panic", index |-> 0]
         ELSE LET ord == PartialCmp(fitness_values[best + 1], fitness_values[y + 1])
              IN IF ord = "None" THEN [status |-> "panic", index |-> 0]
                 ELSE MaxByFirstFrom(tournament, fitness_values, i + 1,
                                     IF ord = "Less" THEN y ELSE best)

MaxByFirst(tournament, fitness_values) ==
    IF Len(tournament) = 0 THEN [status |-> "None", index |-> 0]
    ELSE MaxByFirstFrom(tournament, fitness_values, 2, tournament[1])

MaxBy(tournament, fitness_values) ==
    IF Len(tournament) = 0 THEN [status |-> "None", index |-> 0]
    ELSE MaxByFrom(tournament, fitness_values, 2, tournament[1])

\* TournamentSelection::select: one tournament per output slot, slot after
\* slot; the winner's individual is cloned.  unwrap on an empty tournament
\* panics.
RECURSIVE SelectSlots(_, _, _, _, _, _, _)
SelectSlots(population, fitness_values, r, k, slot, accParents, accDraws) ==
    IF slot > Len(population)
    THEN [ok |-> TRUE, parents |-> accParents, rng |-> r, tournaments |-> accDraws]
    ELSE LET d == DrawTournament(r, Len(population), k, <<>>)
             w == MaxBy(d.tournament, fitness_values)
         IN IF w.status # "Some"
            THEN [ok |-> FALSE, parents |-> accParents, rng |-> d.rng,
                  tournaments |-> Append(accDraws, d.tournament)]
            ELSE SelectSlots(population, fitness_values, d.rng, k, slot + 1,
                             Append(accParents, population[w.index + 1]),
                             Append(accDraws, d.tournament))

\* Mutant of TournamentSelect: one output slot too few.
TournamentSelectShort(population, fitness_values, r, k) ==
    SelectSlots(population, fitness_values, r, k, 2, <<>>, <<>>)

TournamentSelect(population, fitness_values, r, k) ==
    SelectSlots(population, fitness_values, r, k, 1, <<>>, <<>>)

\* ------------------------------------------------- other SelectionStrategy
\* Any other implementation of the SelectionStrategy trait: it may return any
\* number of parents; here copies of population members, taken cyclically.
OtherSelect(population, r) ==
    IF Len(population) = 0
    THEN {[ok |-> TRUE, parents |-> <<>>, rng |-> r, tournaments |-> <<>>]}
    ELSE {[ok |-> TRUE,
           parents |-> [i \in 1..m |-> population[((i - 1) % Len(population)) + 1]],
           rng |-> r, tournaments |-> <<>>] : m \in 0..MaxParents}

\* self.selection_strategy.select(&population, &fitness_values, rng)
SelectionResults(strategy, population, fitness_values, r) ==
    IF strategy.kind = "TournamentSelection"
    THEN {TournamentSelect(population, fitness_values, r, strategy.tournament_size)}
    ELSE OtherSelect(population, r)

\* ------------------------------------------------------ CrossoverOperator
\* SinglePointCrossover::crossover: the candidate's crossover is called twice,
\* the first child of the first call and the second child of the second.
SinglePointCrossover(parent1, parent2) ==
    LET a == IndividualCrossover(parent1, parent2)
        b == IndividualCrossover(parent1, parent2)
    IN IF a.ok /\ b.ok
       THEN [ok |-> TRUE, children |-> <<a.child1, b.child2>>]
       ELSE [ok |-> FALSE, children |-> <<>>]

\* Any other implementation of the CrossoverOperator trait, returning `arity`
\* children: copies of the two parents in turn.
OtherCrossover(parent1, parent2, arity) ==
    [ok |-> TRUE,
     children |-> [i \in 1..arity |-> IF i % 2 = 1 THEN parent1 ELSE parent2]]

\* self.crossover_operator.crossover(&pair[0], &pair[1])
Crossover(operator, parent1, parent2) ==
    IF operator.kind = "SinglePointCrossover"
    THEN SinglePointCrossover(parent1, parent2)
    ELSE OtherCrossover(parent1, parent2, operator.arity)

\* parents.par_chunks(2): the number of chunks, and the c-th chunk, two
\* consecutive parents or the last one alone.
\* parents.par_chunks(2): the number of chunks, the last one of a single
\* parent when the parent count is odd.
NumChunks(parents) == (Len(parents) + 1) \div 2

\* Mutant of ChunkOf: an unpaired last parent is paired with the first.
ChunkOfWraps(parents, c) ==
    IF 2 * c <= Len(parents) THEN SubSeq(parents, 2 * c - 1, 2 * c)
    ELSE IF Len(parents) = 1 THEN <<parents[1]>>
    ELSE <<parents[Len(parents)], parents[1]>>

\* Chunk c (from 1) of par_chunks(2): parents 2c-2 and 2c-1 of the 0-based
\* slice, or the last parent alone.
ChunkOf(parents, c) ==
    SubSeq(parents, 2 * c - 1, IF 2 * c <= Len(parents) THEN 2 * c ELSE Len(parents))

\* Mutant of ChunkResult: a chunk of one parent yields nothing.
ChunkResultDropsSingle(operator, pair) ==
    IF Len(pair) = 2 THEN Crossover(operator, pair[1], pair[2])
    ELSE [ok |-> TRUE, children |-> <<>>]

\* Mutant of ChunkResult: exactly two children are taken from a pair whose
\* operator returns two or more.
ChunkResultFirstTwo(operator, pair) ==
    IF Len(pair) = 2
    THEN LET res == Crossover(operator, pair[1], pair[2])
         IN IF res.ok /\ Len(res.children) > 2
            THEN [ok |-> TRUE, children |-> SubSeq(res.children, 1, 2)]
            ELSE res
    ELSE [ok |-> TRUE, children |-> <<pair[1]>>]

\* The closure of flat_map on one chunk: the crossover operator's children
\* for a pair, the clone of a parent alone.
ChunkResult(operator, pair) ==
    IF Len(pair) = 2 THEN Crossover(operator, pair[1], pair[2])
    ELSE [ok |-> TRUE, children |-> <<pair[1]>>]

\* flat_map(..).collect(): the children of the first n chunks, in chunk order.
RECURSIVE Collect(_, _)
Collect(results, n) ==
    IF n = 0 THEN <<>> ELSE Collect(results, n - 1) \o results[n]

\* ------------------------------------------------------- MutationOperator
\* GaussianMutation::mutate: an ambient Bernoulli trial decides whether the
\* candidate's mutate runs; the passed source is not used.  The candidates
\* the call can leave, or the panic of the trial.
GaussianMutation(individual, mutation_rate) ==
    LET trial == GenBool(mutation_rate) IN
    [ok |-> trial.ok,
     outcomes |-> UNION {IF b THEN IndividualMutate(individual) ELSE {individual} :
                             b \in trial.values}]

\* ------------------------------------------------------- GeneticAlgorithm
\* Mutant of GenerateIndividual: a default candidate instead of the panic.
GenerateIndividualDefault(r) == [ok |-> TRUE, individual |-> <<0, 0>>]

\* GeneticAlgorithm::generate_individual: unimplemented!() panics.
GenerateIndividual(r) == [ok |-> FALSE, individual |-> <<>>]

\* Mutant of LoopContinues: one iteration too many.
LoopContinuesInclusive(g, generations) == g <= generations

\* The condition of `for _ in 0..generations`: another iteration follows g
\* completed ones.
LoopContinues(g, generations) == g < generations

VARIABLES
    ga,               \* the engine: population_size and the three operators
    args,             \* the arguments of evolve
    pc,               \* where the call is
    rng,              \* state of the passed random source
    population,
    fitness_values,
    parents,
    children,         \* the results of the chunk tasks that have run
    offspring,
    pending,          \* tasks of the current parallel step not yet run
    gen,              \* iterations of the generation loop completed
    tournaments,      \* the indices drawn for each slot of the last select
    crossover_calls,  \* the parent index pairs the crossover operator was
                      \* invoked on in the last recombination
    ops,              \* operator invocations of this call
    error,            \* the panic, if any
    run,              \* 1 for the first evolve call, 2 for a repeated one
    first_result      \* what the first call returned

vars == <<ga, args, pc, rng, population, fitness_values, parents, children,
          offspring, pending, gen, tournaments, crossover_calls, ops, error,
          run, first_result>>

NoError == [at |-> "", what |-> ""]
NoOps == [generate |-> 0, select |-> 0, crossover |-> 0, mutate |-> 0]
NoPopulation == [some |-> FALSE, pop |-> <<>>]
Some(pop) == [some |-> TRUE, pop |-> pop]

\* A panic outside the parallel steps ends the call.
Panic(what) ==
    /\ pc' = "panicked"
    /\ error' = [at |-> pc, what |-> what]

\* A panic in a task of a parallel step: the step keeps the first panic.
TaskPanic(what) ==
    error' = IF error = NoError THEN [at |-> pc, what |-> what] ELSE error

\* The tasks are forked with rayon's join, which splits a step of two or
\* more tasks at least once and runs both of its closures also when one of
\* them panics: the panic reaches the caller when no task is left, or, with
\* tasks left, after any number of at least two of the total have run.
PanicSpreads(rest, total) ==
    pc' \in (IF rest = {} \/ total - Cardinality(rest) >= 2
             THEN {"panicked"} ELSE {})
            \cup (IF rest = {} THEN {} ELSE {pc})

\* The head of the generation loop with population pop after g iterations.
\* An empty population has no evaluation task: the step is over at once.
EnterLoop(pop, g) ==
    /\ population' = pop
    /\ gen' = g
    /\ fitness_values' = <<>>
    /\ IF LoopContinues(g, args.generations)
       THEN IF Len(pop) = 0
            THEN pc' = "selecting" /\ pending' = {}
            ELSE pc' = "evaluating" /\ pending' = 1..Len(pop)
       ELSE pc' = "done" /\ pending' = {}

\* The mutation step on the collected offspring; without offspring it has no
\* task and the iteration is over.
EnterMutating(off) ==
    /\ offspring' = off
    /\ IF Len(off) = 0
       THEN EnterLoop(<<>>, gen + 1)
       ELSE /\ pc' = "mutating"
            /\ pending' = 1..Len(off)
            /\ UNCHANGED <<population, fitness_values, gen>>

\* The recombination step on the parents select returned; without parents
\* it has no chunk and no offspring.
EnterRecombining(selected) ==
    /\ parents' = selected
    /\ children' = <<>>
    /\ crossover_calls' = {}
    /\ IF Len(selected) = 0
       THEN EnterMutating(<<>>)
       ELSE /\ pc' = "recombining"
            /\ pending' = 1..NumChunks(selected)
            /\ UNCHANGED <<offspring, population, fitness_values, gen>>

\* Mutant of Initialize: a supplied population is cut to population_size.
InitializeCut ==
    /\ pc = "initializing"
    /\ IF args.initial_population.some
       THEN EnterLoop(SubSeq(args.initial_population.pop, 1,
                             IF ga.population_size < Len(args.initial_population.pop)
                             THEN ga.population_size
                             ELSE Len(args.initial_population.pop)), 0)
       ELSE IF ga.population_size = 0
       THEN EnterLoop(<<>>, 0)
       ELSE /\ pc' = "generating"
            /\ pending' = 1..ga.population_size
            /\ UNCHANGED <<population, fitness_values, gen>>
    /\ UNCHANGED <<ga, args, rng, parents, children, offspring, tournaments,
                   crossover_calls, ops, error, run, first_result>>

\* Initializing: the supplied population is the population; without one,
\* population_size generation tasks are forked (none for size 0).
Initialize ==
    /\ pc = "initializing"
    /\ IF args.initial_population.some
       THEN EnterLoop(args.initial_population.pop, 0)
       ELSE IF ga.population_size = 0
       THEN EnterLoop(<<>>, 0)
       ELSE /\ pc' = "generating"
            /\ pending' = 1..ga.population_size
            /\ UNCHANGED <<population, fitness_values, gen>>
    /\ UNCHANGED <<ga, args, rng, parents, children, offspring, tournaments,
                   crossover_calls, ops, error, run, first_result>>

\* Initializing: one task of (0..population_size).into_par_iter().map(
\* generate_individual); the last one completes the population.
GenerateTask(i) ==
    /\ pc = "generating"
    /\ i \in pending
    /\ LET g == GenerateIndividual(rng)
           rest == pending \ {i}
           made == IF g.ok THEN population @@ (i :> g.individual) ELSE population
       IN /\ ops' = [ops EXCEPT !.generate = @ + 1]
          /\ IF g.ok /\ error = NoError
             THEN /\ UNCHANGED error
                  /\ IF rest = {}
                     THEN EnterLoop(made, 0)
                     ELSE /\ population' = made
                          /\ pending' = rest
                          /\ UNCHANGED <<pc, fitness_values, gen>>
             ELSE /\ IF g.ok THEN UNCHANGED error ELSE TaskPanic("unimplemented")
                  /\ population' = made
                  /\ pending' = rest
                  /\ PanicSpreads(rest, ga.population_size)
                  /\ UNCHANGED <<fitness_values, gen>>
    /\ UNCHANGED <<ga, args, rng, parents, children, offspring, tournaments,
                   crossover_calls, run, first_result>>

\* Mutant of EvaluateTask: the results are collected in reverse order.
EvaluateTaskReversed(i) ==
    /\ pc = "evaluating"
    /\ i \in pending
    /\ fitness_values' =
          fitness_values @@ ((Len(population) + 1 - i) :> Fitness(population[i]))
    /\ pending' = pending \ {i}
    /\ pc' = IF pending' = {} THEN "selecting" ELSE "evaluating"
    /\ UNCHANGED <<ga, args, rng, population, parents, children, offspring, gen,
                   tournaments, crossover_calls, ops, error, run, first_result>>

\* Evaluating: one task of population.par_iter().map(fitness).
EvaluateTask(i) ==
    /\ pc = "evaluating"
    /\ i \in pending
    /\ fitness_values' = fitness_values @@ (i :> Fitness(population[i]))
    /\ pending' = pending \ {i}
    /\ pc' = IF pending' = {} THEN "selecting" ELSE "evaluating"
    /\ UNCHANGED <<ga, args, rng, population, parents, children, offspring, gen,
                   tournaments, crossover_calls, ops, error, run, first_result>>

\* Selecting: the selection strategy is called on the whole fitness vector;
\* its parents are what the recombination step chunks.
Select ==
    /\ pc = "selecting"
    /\ \E res \in SelectionResults(ga.selection_strategy, population,
                                   fitness_values, rng) :
          /\ ops' = [ops EXCEPT !.select = @ + 1]
          /\ tournaments' = res.tournaments
          /\ rng' = res.rng
          /\ IF res.ok
             THEN /\ EnterRecombining(res.parents)
                  /\ UNCHANGED error
             ELSE /\ Panic("select")
                  /\ UNCHANGED <<parents, children, crossover_calls, offspring,
                                 pending, population, fitness_values, gen>>
    /\ UNCHANGED <<ga, args, run, first_result>>

\* Recombining: one task of parents.par_chunks(2).flat_map(..), on chunk c;
\* the last one to finish collects the offspring of all chunks.
RecombineTask(c) ==
    /\ pc = "recombining"
    /\ c \in pending
    /\ LET pair == ChunkOf(parents, c)
           res == ChunkResult(ga.crossover_operator, pair)
           rest == pending \ {c}
           got == IF res.ok THEN children @@ (c :> res.children) ELSE children
       IN /\ children' = got
          /\ IF Len(pair) = 2
             THEN /\ crossover_calls' = crossover_calls \cup {<<2 * c - 2, 2 * c - 1>>}
                  /\ ops' = [ops EXCEPT !.crossover = @ + 1]
             ELSE UNCHANGED <<crossover_calls, ops>>
          /\ IF res.ok /\ error = NoError
             THEN /\ UNCHANGED error
                  /\ IF rest = {}
                     THEN EnterMutating(Collect(got, NumChunks(parents)))
                     ELSE /\ pending' = rest
                          /\ UNCHANGED <<pc, offspring, population,
                                         fitness_values, gen>>
             ELSE /\ IF res.ok THEN UNCHANGED error ELSE TaskPanic("crossover")
                  /\ pending' = rest
                  /\ PanicSpreads(rest, NumChunks(parents))
                  /\ UNCHANGED <<offspring, population, fitness_values, gen>>
    /\ UNCHANGED <<ga, args, rng, parents, tournaments, run, first_result>>

\* Mutant of MutateTask: no barrier, the first finished task ends the step.
MutateTaskNoBarrier(i) ==
    /\ pc = "mutating"
    /\ i \in pending
    /\ LET res == GaussianMutation(offspring[i], ga.mutation_operator.mutation_rate)
       IN /\ res.ok
          /\ \E m \in res.outcomes :
                /\ offspring' = [offspring EXCEPT ![i] = m]
                /\ EnterLoop(offspring', gen + 1)
    /\ ops' = [ops EXCEPT !.mutate = @ + 1]
    /\ UNCHANGED <<ga, args, rng, parents, children, tournaments,
                   crossover_calls, error, run, first_result>>

\* Mutant of MutateTask: the offspring share their genes with the parents, a
\* mutation shows in the parent at the same index.
MutateTaskShared(i) ==
    /\ pc = "mutating"
    /\ i \in pending
    /\ LET res == GaussianMutation(offspring[i], ga.mutation_operator.mutation_rate)
       IN /\ res.ok
          /\ \E m \in res.outcomes :
                /\ offspring' = [offspring EXCEPT ![i] = m]
                /\ parents' = IF i <= Len(parents) THEN [parents EXCEPT ![i] = m]
                              ELSE parents
                /\ IF pending = {i}
                   THEN EnterLoop(offspring', gen + 1)
                   ELSE /\ pending' = pending \ {i}
                        /\ UNCHANGED <<pc, population, fitness_values, gen>>
    /\ ops' = [ops EXCEPT !.mutate = @ + 1]
    /\ UNCHANGED <<ga, args, rng, children, tournaments, crossover_calls,
                   error, run, first_result>>

\* Mutating: one task of offspring.into_par_iter().map(mutate); the last one
\* to finish completes the new population and the iteration.
MutateTask(i) ==
    /\ pc = "mutating"
    /\ i \in pending
    /\ LET res == GaussianMutation(offspring[i], ga.mutation_operator.mutation_rate)
           rest == pending \ {i}
       IN /\ ops' = [ops EXCEPT !.mutate = @ + 1]
          /\ IF res.ok /\ error = NoError
             THEN /\ \E m \in res.outcomes : offspring' = [offspring EXCEPT ![i] = m]
                  /\ UNCHANGED error
                  /\ IF rest = {}
                     THEN EnterLoop(offspring', gen + 1)
                     ELSE /\ pending' = rest
                          /\ UNCHANGED <<pc, population, fitness_values, gen>>
             ELSE /\ IF res.ok
                     THEN /\ \E m \in res.outcomes :
                                offspring' = [offspring EXCEPT ![i] = m]
                          /\ UNCHANGED error
                     ELSE /\ UNCHANGED offspring
                          /\ TaskPanic("mutate")
                  /\ pending' = rest
                  /\ PanicSpreads(rest, Len(offspring))
                  /\ UNCHANGED <<population, fitness_values, gen>>
    /\ UNCHANGED <<ga, args, rng, parents, children, tournaments,
                   crossover_calls, run, first_result>>

Next ==
    \/ Initialize
    \/ \E i \in pending : GenerateTask(i)
    \/ \E i \in pending : EvaluateTask(i)
    \/ Select
    \/ \E c \in pending : RecombineTask(c)
    \/ \E i \in pending : MutateTask(i)

\* ------------------------------------------------------------ the inputs
\* Candidate i of the supplied populations: two genes, the binary digits of i.
Ind(i) == <<i % 2, (i \div 2) % 2>>

\* Sizes of the calls on which mutating engines are explored.
DetMaxN == 2
DetMaxGenerations == 1

\* The supplied populations: the first n candidates, and the same with the
\* second candidate replaced by one without genes, whose crossover with a
\* candidate of two genes is a slice out of range.
Ragged(n) == [i \in 1..n |-> IF i = 2 THEN <<>> ELSE Ind(i)]

InitialPopulations ==
    {[i \in 1..n |-> Ind(i)] : n \in 0..MaxN} \cup {Ragged(n) : n \in 2..MaxN}

\* mutation_rate in tenths: 0.0, 0.5, and 1.5, which is no probability.
MutationRates == {0, 5, 15}

ReferenceEngines ==
    {[population_size |-> ps,
      selection_strategy |-> [kind |-> "TournamentSelection", tournament_size |-> k],
      crossover_operator |-> [kind |-> "SinglePointCrossover", arity |-> 2],
      mutation_operator |-> [kind |-> "GaussianMutation", mutation_rate |-> mr]] :
        ps \in {0, MaxN}, k \in 0..MaxTournament, mr \in MutationRates}

EvolveArgs ==
    {[generations |-> g, rng |-> r, initial_population |-> ip] :
        g \in 0..MaxGenerations, r \in Tapes,
        ip \in {NoPopulation} \cup {Some(p) : p \in InitialPopulations}}

\* A call of evolve on engine e with arguments a.
Call(e, a) ==
    /\ ga = e
    /\ args = a
    /\ pc = "initializing"
    /\ rng = a.rng
    /\ population = <<>>
    /\ fitness_values = <<>>
    /\ parents = <<>>
    /\ children = <<>>
    /\ offspring = <<>>
    /\ pending = {}
    /\ gen = 0
    /\ tournaments = <<>>
    /\ crossover_calls = {}
    /\ ops = NoOps
    /\ error = NoError
    /\ run = 1
    /\ first_result = NoPopulation

\* The states of the passed source that count up from some value.
RotatedTapes ==
    {[i \in 1..TapeLen |-> (i + s) % (MaxRaw + 1)] : s \in 0..MaxRaw}

\* The calls explored: every engine whose mutation leaves candidates alone on
\* every argument, and the engines that do mutate (each candidate then has
\* several successors, by the ambient source) on calls without a population
\* and, for one population_size and the counting states of the passed
\* source, on the small supplied populations.
MutationExplored(e, a) ==
    \/ e.mutation_operator.mutation_rate = 0
    \/ ~a.initial_population.some
    \/ /\ e.population_size = 0
       /\ a.generations <= DetMaxGenerations
       /\ Len(a.initial_population.pop) <= DetMaxN
       /\ a.rng \in RotatedTapes

Init ==
    \E e \in ReferenceEngines, a \in EvolveArgs :
        MutationExplored(e, a) /\ Call(e, a)

Spec == Init /\ [][Next]_vars

\* ------------------------------------------- evolve called a second time
\* The caller repeats a finished call with the same engine, the same
\* arguments and the random source in the same state.
Rerun ==
    /\ pc = "done"
    /\ run = 1
    /\ run' = 2
    /\ first_result' = Some(population)
    /\ pc' = "initializing"
    /\ rng' = args.rng
    /\ population' = <<>>
    /\ fitness_values' = <<>>
    /\ parents' = <<>>
    /\ children' = <<>>
    /\ offspring' = <<>>
    /\ pending' = {}
    /\ gen' = 0
    /\ tournaments' = <<>>
    /\ crossover_calls' = {}
    /\ ops' = NoOps
    /\ UNCHANGED <<ga, args, error>>

\* A call without an initial population, on an engine of population_size
\* MaxN: the call that forks the generation tasks.
Unseeded ==
    \E e \in ReferenceEngines :
        /\ e.population_size = MaxN
        /\ e.selection_strategy.tournament_size = 1
        /\ e.mutation_operator.mutation_rate = 0
        /\ Call(e, [generations |-> 0, rng |-> [i \in 1..TapeLen |-> 0],
                    initial_population |-> NoPopulation])

DetEngines == {e \in ReferenceEngines : e.population_size = 0}

DetArgs ==
    {a \in EvolveArgs :
        /\ a.generations <= DetMaxGenerations
        /\ a.initial_population.some
        /\ Len(a.initial_population.pop) <= DetMaxN}

InitDet == (\E e \in DetEngines, a \in DetArgs : Call(e, a)) \/ Unseeded

NextDet == Next \/ Rerun

SpecDet == InitDet /\ [][NextDet]_vars

\* --------------------------- populations of one gene length, no mutation
\* Candidate i of a population of gene length l: the gene at position j is
\* 10 * j plus the j-th binary digit of i, so no value occurs at two
\* positions.
Tagged(i, l) == [j \in 1..l |-> 10 * j + ((i \div (2 ^ (j - 1))) % 2)]

UniformPopulations ==
    {[i \in 1..n |-> Tagged(i, l)] : n \in 0..MaxN, l \in 0..MaxGenes}

UniformArgs ==
    {[generations |-> g, rng |-> r, initial_population |-> Some(p)] :
        g \in 0..MaxGenerations, r \in Tapes, p \in UniformPopulations}

InitUniform ==
    \/ \E e \in ReferenceEngines, a \in UniformArgs :
          /\ e.population_size = 0
          /\ e.mutation_operator.mutation_rate = 0
          /\ Call(e, a)
    \/ Unseeded

SpecUniform == InitUniform /\ [][Next]_vars

\* ------------------------------------------ engines with other operators
MaxArity == 3

GenericEngines ==
    {[population_size |-> 0,
      selection_strategy |-> sel,
      crossover_operator |-> cr,
      mutation_operator |-> [kind |-> "GaussianMutation", mutation_rate |-> 0]] :
        sel \in {[kind |-> "TournamentSelection", tournament_size |-> 1],
                 [kind |-> "Other", tournament_size |-> 0]},
        cr \in {[kind |-> "SinglePointCrossover", arity |-> 2]}
               \cup {[kind |-> "Other", arity |-> c] : c \in 0..MaxArity}}

GenericArgs ==
    {a \in EvolveArgs :
        a.initial_population.some /\ Len(a.initial_population.pop) <= DetMaxN}

InitGeneric ==
    (\E e \in GenericEngines, a \in GenericArgs : Call(e, a)) \/ Unseeded

SpecGeneric == InitGeneric /\ [][Next]_vars

\* The same engines on few generations and one state of the random source:
\* an operator returning more than two children makes every population
\* larger than the one before.
ArityArgs ==
    {a \in GenericArgs :
        a.generations <= DetMaxGenerations /\ a.rng = [i \in 1..TapeLen |-> 0]}

InitArity ==
    (\E e \in GenericEngines, a \in ArityArgs : Call(e, a)) \/ Unseeded

SpecArity == InitArity /\ [][Next]_vars

\* --------------------------------- TournamentSelection::select on its own
FitnessValues == {0, 1, NaN}

SelectEngines == {e \in ReferenceEngines :
                     e.population_size = 0 /\ e.mutation_operator.mutation_rate = 0}

\* select is called with a population, a fitness vector of the same length
\* and a random source.
InitSelect ==
    \E e \in SelectEngines, r \in Tapes, p \in InitialPopulations :
    \E fv \in [1..Len(p) -> FitnessValues] :
        /\ ga = e
        /\ args = [generations |-> 0, rng |-> r, initial_population |-> NoPopulation]
        /\ pc = "call_select"
        /\ rng = r
        /\ population = p
        /\ fitness_values = fv
        /\ parents = <<>>
        /\ children = <<>>
        /\ offspring = <<>>
        /\ pending = {}
        /\ gen = 0
        /\ tournaments = <<>>
        /\ crossover_calls = {}
        /\ ops = NoOps
        /\ error = NoError
        /\ run = 1
        /\ first_result = NoPopulation

SelectCall ==
    /\ pc = "call_select"
    /\ LET res == TournamentSelect(population, fitness_values, rng,
                                   ga.selection_strategy.tournament_size) IN
          /\ tournaments' = res.tournaments
          /\ rng' = res.rng
          /\ ops' = [ops EXCEPT !.select = @ + 1]
          /\ IF res.ok
             THEN /\ parents' = res.parents
                  /\ pc' = "returned"
                  /\ UNCHANGED error
             ELSE /\ Panic("select")
                  /\ UNCHANGED parents
    /\ UNCHANGED <<ga, args, population, fitness_values, children, offspring,
                   pending, gen, crossover_calls, run, first_result>>

SpecSelect == InitSelect /\ [][SelectCall]_vars

\* select is called with a population and a fitness vector of any length,
\* the population's or another: the signature asks for two slices and
\* nothing relates their lengths.
ComparableFitness == FitnessValues \ {NaN}

FitnessVectors == UNION {[1..l -> ComparableFitness] : l \in 0..(MaxN + 1)}

InitSelectAny ==
    \E e \in SelectEngines, r \in Tapes, p \in InitialPopulations,
       fv \in FitnessVectors :
        /\ ga = e
        /\ args = [generations |-> 0, rng |-> r, initial_population |-> NoPopulation]
        /\ pc = "call_select"
        /\ rng = r
        /\ population = p
        /\ fitness_values = fv
        /\ parents = <<>>
        /\ children = <<>>
        /\ offspring = <<>>
        /\ pending = {}
        /\ gen = 0
        /\ tournaments = <<>>
        /\ crossover_calls = {}
        /\ ops = NoOps
        /\ error = NoError
        /\ run = 1
        /\ first_result = NoPopulation

SpecSelectAny == InitSelectAny /\ [][SelectCall]_vars

\* ------------------------------- SinglePointCrossover::crossover on its own
GeneValues == {0, 1}

Individuals == UNION {[1..l -> GeneValues] : l \in 0..MaxGenes}

InitCrossover ==
    \E e \in {x \in SelectEngines :
                 x.selection_strategy.tournament_size = MaxTournament},
       p1 \in Individuals, p2 \in Individuals :
        /\ ga = e
        /\ args = [generations |-> 0, rng |-> [i \in 1..TapeLen |-> 0],
                   initial_population |-> NoPopulation]
        /\ pc = "call_crossover"
        /\ rng = args.rng
        /\ population = <<>>
        /\ fitness_values = <<>>
        /\ parents = <<p1, p2>>
        /\ children = <<>>
        /\ offspring = <<>>
        /\ pending = {}
        /\ gen = 0
        /\ tournaments = <<>>
        /\ crossover_calls = {}
        /\ ops = NoOps
        /\ error = NoError
        /\ run = 1
        /\ first_result = NoPopulation

CrossoverCall ==
    /\ pc = "call_crossover"
    /\ LET res == SinglePointCrossover(parents[1], parents[2]) IN
          /\ ops' = [ops EXCEPT !.crossover = @ + 1]
          /\ IF res.ok
             THEN /\ offspring' = res.children
                  /\ pc' = "returned"
                  /\ UNCHANGED error
             ELSE /\ Panic("crossover")
                  /\ UNCHANGED offspring
    /\ UNCHANGED <<ga, args, rng, population, fitness_values, parents,
                   children, pending, gen, tournaments, crossover_calls, run,
                   first_result>>

SpecCrossover == InitCrossover /\ [][CrossoverCall]_vars

\* --------------------------------------- GaussianMutation::mutate on its own
\* The mutation rates tried: never, sometimes, always, and the one of
\* MutationRates that is no probability.
TrialRates == MutationRates \cup {10}

\* mutate is called on a candidate; population keeps the candidate as it was
\* passed, offspring holds the one the call works on.
InitMutate ==
    \E e \in {x \in SelectEngines :
                 x.selection_strategy.tournament_size = MaxTournament},
       mr \in TrialRates, individual \in Individuals :
        /\ ga = [e EXCEPT !.mutation_operator.mutation_rate = mr]
        /\ args = [generations |-> 0, rng |-> [i \in 1..TapeLen |-> 0],
                   initial_population |-> NoPopulation]
        /\ pc = "call_mutate"
        /\ rng = args.rng
        /\ population = <<individual>>
        /\ fitness_values = <<>>
        /\ parents = <<>>
        /\ children = <<>>
        /\ offspring = <<individual>>
        /\ pending = {}
        /\ gen = 0
        /\ tournaments = <<>>
        /\ crossover_calls = {}
        /\ ops = NoOps
        /\ error = NoError
        /\ run = 1
        /\ first_result = NoPopulation

\* GaussianMutation::mutate up to its `if`: the ambient trial sends the call
\* into the candidate's mutate or straight to its return, or panics.
MutateCall ==
    /\ pc = "call_mutate"
    /\ LET trial == GenBool(ga.mutation_operator.mutation_rate) IN
          IF trial.ok
          THEN /\ \E b \in trial.values :
                     pc' = IF b THEN "individual_mutate" ELSE "returned"
               /\ UNCHANGED error
          ELSE Panic("mutate")
    /\ ops' = [ops EXCEPT !.mutate = @ + 1]
    /\ UNCHANGED <<ga, args, rng, population, fitness_values, parents,
                   children, offspring, pending, gen, tournaments,
                   crossover_calls, run, first_result>>

\* individual.mutate() inside GaussianMutation::mutate, which then returns.
IndividualMutateCall ==
    /\ pc = "individual_mutate"
    /\ \E mutated \in IndividualMutate(offspring[1]) :
          offspring' = <<mutated>>
    /\ pc' = "returned_mutated"
    /\ UNCHANGED <<ga, args, rng, population, fitness_values, parents,
                   children, pending, gen, tournaments, crossover_calls, ops,
                   error, run, first_result>>

NextMutate == MutateCall \/ IndividualMutateCall

SpecMutate == InitMutate /\ [][NextMutate]_vars

\* ================================================================ claims
N == Len(population)
k == ga.selection_strategy.tournament_size
Supplied == args.initial_population.some
Ended == pc \in {"done", "panicked"}

\* The length of the population the generation loop starts with.
StartLen ==
    IF Supplied THEN Len(args.initial_population.pop) ELSE ga.population_size

\* C1 (amended): with the reference operators, at the end of every generation
\* the population length equals its length at the start of that generation,
\* which is the length of the population the loop started with (the supplied
\* one, whatever population_size is), for even and for odd sizes.
C1_SizePreserved ==
    [][gen' = gen + 1 =>
          /\ Len(population') = Len(population)
          /\ Len(population') = StartLen]_vars

\* C1 as stated: the length also equals the configured population_size.
C1_SizeIsPopulationSize ==
    [][gen' = gen + 1 =>
          /\ Len(population') = Len(population)
          /\ Len(population') = ga.population_size]_vars

\* Two generations of an odd-sized population have ended, each with a
\* selection, a crossover call on the one pair and a mutation call per
\* candidate, and the population is not the supplied one.
C1_Witness ==
    /\ pc = "done"
    /\ gen = 2
    /\ Len(population) = 3
    /\ ops.crossover = 2
    /\ ops.mutate = 6
    /\ population # args.initial_population.pop

\* C2: a repeated evolve call with the same random source state, operators,
\* generations and initial population returns the same final population.
C2_Determinism ==
    (run = 2 /\ pc = "done") => population = first_result.pop

\* What is left of a call: the iterations to go, and within the iteration
\* the steps and tasks to go.  No step of an iteration has more than
\* PhaseWeight - 1 tasks.
PhaseWeight == MaxN + 1
StepsPerGeneration == 4 * PhaseWeight

Remaining ==
    IF Ended THEN 0
    ELSE IF pc = "initializing" THEN (args.generations + 2) * StepsPerGeneration
    ELSE IF pc = "generating"
    THEN (args.generations + 1) * StepsPerGeneration + Cardinality(pending)
    ELSE (args.generations - gen - 1) * StepsPerGeneration
         + (CASE pc = "evaluating" -> 3 * PhaseWeight + Cardinality(pending)
              [] pc = "selecting" -> 3 * PhaseWeight
              [] pc = "recombining" -> 2 * PhaseWeight + Cardinality(pending)
              [] pc = "mutating" -> PhaseWeight + Cardinality(pending))

\* A step can be taken: a task is pending, or the step of pc has a result.
CanStep ==
    /\ pc \in {"initializing", "generating", "evaluating", "selecting",
               "recombining", "mutating"}
    /\ pc = "selecting" =>
          SelectionResults(ga.selection_strategy, population, fitness_values,
                           rng) # {}
    /\ pc # "selecting" => ENABLED Next

\* C3: a call with a supplied population ends, unless an operator panics,
\* after exactly `generations` iterations and returns the population the last
\* iteration produced: it is never stuck before, every step brings it
\* closer to its end, and it ends in "done" only with gen = generations.
\* Selection is invoked once per iteration; with generations = 0 no operator
\* is invoked and the supplied population is returned as it is.
C3_ExactGenerations ==
    /\ [](Supplied =>
            /\ gen <= args.generations
            /\ ~Ended => CanStep
            /\ pc = "done" =>
                  /\ gen = args.generations
                  /\ ops.select = args.generations
                  /\ args.generations > 0 => population = offspring
                  /\ args.generations = 0 =>
                        population = args.initial_population.pop /\ ops = NoOps
            /\ pc \in {"evaluating", "selecting"} => ops.select = gen
            /\ pc \in {"recombining", "mutating"} => ops.select = gen + 1)
    /\ [][Supplied => (Remaining' < Remaining /\ Remaining' >= 0)]_vars

\* A call has returned after two iterations, two selections, on three
\* candidates.
C3_Witness ==
    /\ Supplied
    /\ pc = "done"
    /\ args.generations = 2
    /\ gen = 2
    /\ ops.select = 2
    /\ Len(population) = 3

\* The j-th index drawn for slot s of a select call: the passed source's
\* stream, read in order.
Draw(s, j) == args.rng[(((s - 1) * k + (j - 1)) % TapeLen) + 1] % N

\* The draw at position j of slot s has maximal fitness among the slot's draws.
IsMaxDraw(s, j) ==
    \A j2 \in 1..k :
        fitness_values[Draw(s, j2) + 1] <= fitness_values[Draw(s, j) + 1]

SelectEnded == pc \in {"returned", "panicked"}
Comparable == \A i \in 1..Len(fitness_values) : fitness_values[i] # NaN

\* Each slot's parent is the member at one of the slot's draws, of maximal
\* fitness among them.
ParentsAreMaximalDraws ==
    /\ pc = "returned"
    /\ Len(parents) = N
    /\ \A s \in 1..N :
          \E j \in 1..k :
              /\ parents[s] = population[Draw(s, j) + 1]
              /\ IsMaxDraw(s, j)

\* C4 (amended): select on N >= 1 candidates with N fitness values, none of
\* them NaN, returns exactly N parents for every tournament_size k >= 1, each
\* a copy of the member at one of its slot's k drawn indices whose fitness is
\* maximal among those draws.
C4_SelectReturnsMaximal ==
    (SelectEnded /\ N >= 1 /\ Len(fitness_values) = N /\ k >= 1 /\ Comparable)
        => ParentsAreMaximalDraws

\* C4 as stated: for every tournament_size.
C4_EveryTournamentSize ==
    (SelectEnded /\ N >= 1 /\ Len(fitness_values) = N /\ Comparable)
        => ParentsAreMaximalDraws

\* select has returned three parents from tournaments of two, one of them
\* between candidates of different fitness.
C4_Witness ==
    /\ pc = "returned"
    /\ N = 3 /\ k = 2 /\ Comparable
    /\ Len(parents) = 3
    /\ \E s \in 1..N :
          fitness_values[Draw(s, 1) + 1] > fitness_values[Draw(s, 2) + 1]

\* The last position of slot s whose draw has maximal fitness.
LastMaxPos(s) ==
    CHOOSE j \in 1..k :
        IsMaxDraw(s, j) /\ \A j2 \in (j + 1)..k : ~IsMaxDraw(s, j2)

\* C5: when several draws of a slot have the same maximal fitness, select
\* returns the candidate at the last-drawn of them.
C5_LastDrawnWins ==
    (pc = "returned" /\ k >= 1) =>
        \A s \in 1..Len(parents) :
            parents[s] = population[Draw(s, LastMaxPos(s)) + 1]

\* A slot drew two different indices of equal fitness, the lower one first,
\* and the later one was returned.
C5_Witness ==
    /\ pc = "returned"
    /\ k = 2
    /\ \E s \in 1..Len(parents) :
          /\ Draw(s, 1) < Draw(s, 2)
          /\ fitness_values[Draw(s, 1) + 1] = fitness_values[Draw(s, 2) + 1]
          /\ parents[s] = population[Draw(s, 2) + 1]
          /\ parents[s] # population[Draw(s, 1) + 1]

\* C6: with an odd number of parents, crossover is invoked on the consecutive
\* pairs (0,1), (2,3), ... only, never on the last parent, and the last
\* offspring of the recombination is that parent, same genes, same fitness.
C6_OddPassThrough ==
    /\ crossover_calls \subseteq
          {<<2 * i - 2, 2 * i - 1>> : i \in 1..(Len(parents) \div 2)}
    /\ (pc = "mutating" /\ pending = 1..Len(offspring)) =>
        /\ crossover_calls =
              {<<2 * i - 2, 2 * i - 1>> : i \in 1..(Len(parents) \div 2)}
        /\ Len(parents) % 2 = 1 =>
              /\ Len(offspring) >= 1
              /\ offspring[Len(offspring)] = parents[Len(parents)]
              /\ Fitness(offspring[Len(offspring)]) = Fitness(parents[Len(parents)])

\* Three parents were recombined: one pair, and a last parent that differs
\* from the first.
C6_Witness ==
    /\ pc = "mutating"
    /\ pending = 1..Len(offspring)
    /\ Len(parents) = 3
    /\ parents[3] # parents[1]
    /\ crossover_calls = {<<0, 1>>}
    /\ offspring[3] = parents[3]

\* C7: on parents of equal gene length L, SinglePointCrossover returns two
\* children of length L, the first with genes [0, L/2) of parent1 and
\* [L/2, L) of parent2, the second the other way round: the two children of
\* the candidate's crossover, in that order.
C7_SinglePointCrossover ==
    (pc \in {"returned", "panicked"} /\ Len(parents[1]) = Len(parents[2])) =>
        LET L == Len(parents[1])
            own == IndividualCrossover(parents[1], parents[2])
        IN /\ pc = "returned"
           /\ Len(offspring) = 2
           /\ Len(offspring[1]) = L
           /\ Len(offspring[2]) = L
           /\ \A j \in 1..L :
                 /\ offspring[1][j] =
                       IF j <= L \div 2 THEN parents[1][j] ELSE parents[2][j]
                 /\ offspring[2][j] =
                       IF j <= L \div 2 THEN parents[2][j] ELSE parents[1][j]
           /\ offspring = <<own.child1, own.child2>>

\* Two parents of three genes each, different at every position.
C7_Witness ==
    /\ pc = "returned"
    /\ parents = << <<0, 0, 0>>, <<1, 1, 1>> >>
    /\ offspring = << <<0, 1, 1>>, <<1, 0, 0>> >>

\* C8 (amended): a call with no initial population and population_size >= 1
\* fails at Initializing, in generate_individual, for every generations
\* count, before any operator is invoked: its generation tasks panic, one
\* of them runs (two or more of two or more), and nothing else does; with
\* population_size = 0
\* generate_individual is never invoked and the call returns an empty
\* population.
C8_MissingGenerator ==
    (~Supplied /\ pc # "initializing") =>
        /\ ga.population_size >= 1 =>
              /\ pc \in {"generating", "panicked"}
              /\ pc = "panicked" =>
                    /\ error = [at |-> "generating", what |-> "unimplemented"]
                    /\ ops.generate \in 1..ga.population_size
                    /\ ga.population_size >= 2 => ops.generate >= 2
              /\ population = <<>>
              /\ ops.select = 0 /\ ops.crossover = 0 /\ ops.mutate = 0
        /\ ga.population_size = 0 =>
              /\ pc # "generating"
              /\ ops.generate = 0
              /\ pc = "done" => population = <<>>

\* C8 as stated: the call fails for every population_size, 0 included.
C8_FailsForEverySize ==
    (~Supplied /\ pc \notin {"initializing", "generating"}) =>
        pc = "panicked" /\ error.at = "generating"

\* The call failed at Initializing, after two of its generation tasks had
\* run, although no generation was asked for.
C8_Witness ==
    /\ ~Supplied
    /\ ga.population_size >= 2
    /\ args.generations = 0
    /\ pc = "panicked"
    /\ error.at = "generating"
    /\ ops.generate = 2

\* A drawn index has a NaN fitness.
DrawnNaN ==
    \E s \in 1..Len(tournaments) :
        \E j \in 1..Len(tournaments[s]) :
            fitness_values[tournaments[s][j] + 1] = NaN

\* C9 (amended): for every tournament_size k >= 2 and every draw order,
\* select panics when the indices drawn for a slot include a candidate of NaN
\* fitness; with k = 1 no comparison is made and select returns, whatever
\* the fitness of the drawn candidates.
C9_NaNPanics ==
    (SelectEnded /\ N >= 1 /\ Len(fitness_values) = N) =>
        /\ (k >= 2 /\ DrawnNaN) => (pc = "panicked" /\ error.what = "select")
        /\ k = 1 => pc = "returned"

\* C9 as stated: for every k >= 1, k = 1 included.
C9_NaNPanicsForEverySize ==
    (SelectEnded /\ N >= 1 /\ Len(fitness_values) = N /\ k >= 1 /\ DrawnNaN)
        => pc = "panicked"

\* select panicked in a tournament of two whose second draw has NaN fitness.
C9_Witness ==
    /\ pc = "panicked"
    /\ k = 2
    /\ Len(tournaments) >= 1
    /\ LET t == tournaments[Len(tournaments)]
       IN fitness_values[t[1] + 1] # NaN /\ fitness_values[t[2] + 1] = NaN

\* C10: evolve never goes on to recombination or mutation with a parent
\* sequence whose length differs from the population's.
C10_ParentCountChecked ==
    pc \in {"recombining", "mutating"} => Len(parents) = Len(population)

\* C11: select never returns a parent sequence when the population is empty
\* or the fitness vector's length differs from the population's: the call
\* fails.
C11_SelectRejectsBadInput ==
    (SelectEnded /\ (N = 0 \/ Len(fitness_values) # N)) => pc = "panicked"

\* The children the crossover operator returns for the p-th pair of parents.
PairChildren(p) ==
    Crossover(ga.crossover_operator, parents[2 * p - 1], parents[2 * p]).children

\* The children of the first p pairs, in pair order.
RECURSIVE ConcatChildren(_)
ConcatChildren(p) ==
    IF p = 0 THEN <<>> ELSE ConcatChildren(p - 1) \o PairChildren(p)

\* The crossover operator fails on some pair of the parents.
SomePairFails ==
    \E p \in 1..(Len(parents) \div 2) :
        ~Crossover(ga.crossover_operator, parents[2 * p - 1], parents[2 * p]).ok

\* C12: with a crossover operator returning c >= 1 children per pair the
\* recombination does not fail, unless the operator itself does on a pair,
\* and its offspring sequence is the concatenation, in pair order, of every
\* pair's children, followed by the unpaired last parent when the parent
\* count is odd; its length is c times the number of pairs plus (parent
\* count mod 2).
C12_AnyArity ==
    [][(pc = "recombining" /\ ga.crossover_operator.arity >= 1) =>
          /\ pc' = "panicked" => SomePairFails
          /\ pc' \notin {"recombining", "panicked"} =>
                /\ ~SomePairFails
                /\ offspring' =
                      ConcatChildren(Len(parents) \div 2)
                          \o (IF Len(parents) % 2 = 1
                              THEN <<parents[Len(parents)]>> ELSE <<>>)
                /\ Len(offspring') =
                      ga.crossover_operator.arity * (Len(parents) \div 2)
                          + (Len(parents) % 2)]_vars

\* Three parents went through an operator returning three children per pair:
\* four offspring, the last one the unpaired parent.
C12_Witness ==
    /\ pc = "mutating"
    /\ pending = 1..Len(offspring)
    /\ ga.crossover_operator = [kind |-> "Other", arity |-> 3]
    /\ Len(parents) = 3
    /\ Len(offspring) = 4
    /\ offspring[4] = parents[3]

\* The head of the next iteration, or the end of the call: where a finished
\* iteration goes.  An empty population has no evaluation task, so its
\* Evaluating phase is over as it starts.
NextHead(pop) == IF Len(pop) = 0 THEN {"selecting", "done"} ELSE {"evaluating", "done"}

\* The phase changes a step may make.  Initializing has the generation
\* tasks as its second part; a step with a panic never completes.
PhaseStep ==
    /\ pc = "initializing" => pc' \in NextHead(population') \cup {"generating"}
    /\ pc = "generating" =>
          /\ pc' \in {"generating", "panicked", "evaluating", "done"}
          /\ pc' \in {"evaluating", "done"} => Cardinality(pending) = 1
    /\ pc = "evaluating" =>
          /\ pc' \in {"evaluating", "selecting"}
          /\ pc' = "selecting" => Cardinality(pending) = 1
    /\ pc = "selecting" =>
          /\ pc' \in {"recombining", "panicked"} \cup NextHead(<<>>)
          /\ pc' \notin {"recombining", "panicked"} => parents' = <<>>
    /\ pc = "recombining" =>
          /\ pc' \in {"recombining", "mutating", "panicked"}
          /\ pc' = "mutating" => Cardinality(pending) = 1
    /\ pc = "mutating" =>
          /\ pc' \in {"mutating", "panicked"} \cup NextHead(population')
          /\ pc' \notin {"mutating", "panicked"} => Cardinality(pending) = 1
    /\ pc \in {"done", "panicked"} => pc' = pc
    /\ error # NoError => pc' \in {pc, "panicked"}
    /\ gen' # gen =>
          (gen' = gen + 1 /\ pc \in {"selecting", "recombining", "mutating"})

\* The chunk tasks that have run, and those of them that are pairs.
ChunksRun == (1..NumChunks(parents)) \ pending
PairsRun == {c \in ChunksRun : 2 * c <= Len(parents)}

\* What each phase finds done when it runs.
PhaseBarriers ==
    /\ pc = "evaluating" =>
          /\ pending # {}
          /\ DOMAIN fitness_values = (1..N) \ pending
          /\ ops.select = gen /\ ops.mutate = gen * N
          /\ gen > 0 => population = offspring
    /\ pc = "selecting" =>
          /\ pending = {}
          /\ DOMAIN fitness_values = 1..N
          /\ ops.select = gen
    /\ pc = "recombining" =>
          /\ ops.select = gen + 1
          /\ Len(parents) = N
          /\ Len(tournaments) = N
          /\ pending # {} /\ pending \subseteq 1..NumChunks(parents)
          /\ DOMAIN children \subseteq ChunksRun
          /\ error = NoError => DOMAIN children = ChunksRun
          /\ ops.crossover = gen * (N \div 2) + Cardinality(PairsRun)
          /\ ops.mutate = gen * N
    /\ pc = "mutating" =>
          /\ ops.select = gen + 1
          /\ DOMAIN children = 1..NumChunks(parents)
          /\ ops.crossover = (gen + 1) * (N \div 2)
          /\ pending # {}
          /\ ops.mutate = gen * N + Len(offspring) - Cardinality(pending)

\* C13: in every generation the phases come in the order Evaluating,
\* Selecting, Recombining, Mutating; selection starts only when the fitness
\* of every individual of the population has been computed, recombination
\* only when selection has returned all its parents, and the next
\* generation's evaluation only when every offspring has been mutated.
C13_PhaseOrder == []PhaseBarriers /\ [][PhaseStep]_vars

\* The second generation's evaluation is under way on three candidates:
\* one selection, one crossover call and three mutations lie behind.
C13_Witness ==
    /\ pc = "evaluating"
    /\ gen = 1
    /\ N = 3
    /\ Cardinality(pending) = 2
    /\ ops = [generate |-> 0, select |-> 1, crossover |-> 1, mutate |-> 3]

\* The offspring of the current parents as recombination produced them,
\* before any mutation.
Unmutated ==
    LET n == NumChunks(parents) IN
    Collect([c \in 1..n |->
                ChunkResult(ga.crossover_operator, ChunkOf(parents, c)).children], n)

\* What one call of the mutation operator can make of a candidate.
MutatedOnce(individual) ==
    GaussianMutation(individual, ga.mutation_operator.mutation_rate).outcomes

\* Every computed fitness value sits at the index of its individual; every
\* offspring sits at its index, mutated once if its task has run and as
\* recombination left it otherwise; the population of the next iteration is
\* the offspring, each mutated once, index by index.
IndexPreserved ==
    /\ pc = "evaluating" =>
          \A i \in DOMAIN fitness_values :
              i \in 1..N /\ fitness_values[i] = Fitness(population[i])
    /\ pc = "selecting" => fitness_values = [i \in 1..N |-> Fitness(population[i])]
    /\ pc = "mutating" =>
          LET before == Unmutated IN
          /\ pending \subseteq 1..Len(offspring)
          /\ Len(offspring) = Len(before)
          /\ ops.mutate = gen * N + Len(offspring) - Cardinality(pending)
          /\ \A i \in 1..Len(offspring) :
                IF i \in pending \/ (error # NoError /\ error.at = "mutating")
                THEN offspring[i] = before[i]
                ELSE offspring[i] \in MutatedOnce(before[i])
    /\ (gen > 0 /\ (pc = "done" \/ pending = 1..N)
             /\ pc \in {"evaluating", "selecting", "done"}) =>
          LET before == Unmutated IN
          /\ N = Len(before)
          /\ ops.mutate = gen * N
          /\ \A i \in 1..N : population[i] \in MutatedOnce(before[i])

\* C14: in whatever order the parallel tasks run, the fitness vector passed
\* to selection holds at index i the fitness of population[i], and element i
\* of the next population is the result of one application of the mutation
\* operator to offspring[i]: none is mutated twice, skipped or moved.
C14_IndexPreserved == IndexPreserved

\* A generation of two candidates has ended: the mutation changed the first
\* offspring and left the second as it was.
C14_Witness ==
    /\ pc = "done"
    /\ gen = 1
    /\ N = 2
    /\ Fitness(population[1]) # Fitness(population[2])
    /\ population[1] # Unmutated[1]
    /\ population[2] = Unmutated[2]

\* What a step leaves alone: only Initializing and the end of an iteration
\* give the population a value, only select's return gives the parents one.
FrameStep ==
    /\ pc = "evaluating" => population' = population /\ parents' = parents
    /\ pc = "selecting" =>
          population' = population /\ fitness_values' = fitness_values
    /\ pc = "recombining" =>
          /\ parents' = parents
          /\ population' = population /\ fitness_values' = fitness_values
    /\ pc = "mutating" =>
          /\ parents' = parents
          /\ pc' = "mutating" =>
                population' = population /\ fitness_values' = fitness_values
    /\ population' # population =>
          \/ pc \in {"initializing", "generating"}
          \/ gen' = gen + 1 /\ population' = offspring'
    /\ parents' # parents => (pc = "selecting" /\ pc' = "recombining")

\* While an iteration recombines and mutates, the parents are the members
\* select drew and the population still has the fitness select was given.
ParentsStand ==
    pc \in {"recombining", "mutating"} =>
        /\ Len(parents) = Len(tournaments)
        /\ \A s \in 1..Len(parents) :
              \E j \in 1..Len(tournaments[s]) :
                  parents[s] = population[tournaments[s][j] + 1]
        /\ fitness_values = [i \in 1..N |-> Fitness(population[i])]

\* C15: select leaves the population and the fitness vector as they are,
\* crossover leaves the parents as they are, mutation acts on the offspring
\* only: through an iteration the population and the parent sequence keep
\* their values, until the population is replaced by the mutated offspring.
C15_ParentsUnaffected == []ParentsStand /\ [][FrameStep]_vars

\* In the first iteration the mutation has changed one offspring into
\* something that is no parent, while another task is pending; the population
\* is still the supplied one.
C15_Witness ==
    /\ pc = "mutating"
    /\ gen = 0
    /\ Cardinality(pending) = 1
    /\ Len(offspring) = 2
    /\ \E i \in 1..2 :
          /\ offspring[i] # Unmutated[i]
          /\ \A s \in 1..Len(parents) : offspring[i] # parents[s]
    /\ population = args.initial_population.pop

\* Candidate y is candidate x with one gene position perturbed by an offset
\* of [-0.1, 0.1), every other gene and the gene count as in x.  A gene
\* difference d stands for d/16: it is in the interval when -1.6 <= d < 1.6.
OneGenePerturbed(x, y) ==
    /\ Len(y) = Len(x)
    /\ \E j \in 1..Len(x) :
          /\ 10 * (y[j] - x[j]) >= -16 /\ 10 * (y[j] - x[j]) < 16
          /\ \A j2 \in 1..Len(x) : j2 # j => y[j2] = x[j2]

\* C16: one call of the candidate's mutate perturbs one gene position by an
\* offset of [-0.1, 0.1) and leaves the other genes and the gene count as
\* they were; on a candidate without genes it changes nothing.
\* GaussianMutation::mutate makes at most one such call and otherwise leaves
\* the candidate as it was: it never makes the call with mutation_rate 0 and
\* always with mutation_rate 1.
C16_MutateOneGene ==
    LET x == population[1]
        y == offspring[1]
        rate == ga.mutation_operator.mutation_rate
    IN /\ pc \in {"call_mutate", "individual_mutate", "returned", "panicked"} =>
             y = x
       /\ pc = "returned_mutated" =>
             IF Len(x) = 0 THEN y = x ELSE OneGenePerturbed(x, y)
       /\ pc \in {"returned", "returned_mutated"} =>
             y \in GaussianMutation(x, rate).outcomes /\ ops.mutate = 1
       /\ rate = 0 => pc \in {"call_mutate", "returned"}
       /\ rate = 10 => pc \notin {"returned", "panicked"}
       /\ pc = "panicked" => rate \notin 0..10

\* A call raised the second of three genes by 0.0625 and changed nothing
\* else.
C16_Witness ==
    /\ pc = "returned_mutated"
    /\ ga.mutation_operator.mutation_rate = 5
    /\ population = << <<1, 1, 1>> >>
    /\ offspring = << <<1, 2, 1>> >>

\* The candidates the call was given.
Initial == args.initial_population.pop

\* Candidate c has the gene length of the initial candidates, and at every
\* position the gene some initial candidate has at that position.
FromInitialGenes(c) ==
    /\ \A i \in 1..Len(Initial) : Len(c) = Len(Initial[i])
    /\ \A j \in 1..Len(c) : \E i \in 1..Len(Initial) : c[j] = Initial[i][j]

\* C17: with the reference operators, mutation_rate 0 and initial candidates
\* of one gene length L, every candidate of every later population (and
\* every parent and offspring on the way) has gene length L and at each
\* position the gene of some initial candidate at that position.
C17_GeneClosure ==
    (Supplied /\ ga.mutation_operator.mutation_rate = 0
        /\ pc # "initializing") =>
        /\ \A i \in 1..Len(population) : FromInitialGenes(population[i])
        /\ \A i \in 1..Len(parents) : FromInitialGenes(parents[i])
        /\ \A i \in 1..Len(offspring) : FromInitialGenes(offspring[i])

\* Two generations on three candidates of three genes have made a candidate
\* that was not among the initial ones.
C17_Witness ==
    /\ pc = "done"
    /\ gen = 2
    /\ Len(population) = 3
    /\ \E i \in 1..3 :
          /\ Len(population[i]) = 3
          /\ \A i0 \in 1..Len(Initial) : population[i] # Initial[i0]

\* C18: a call with a supplied population never invokes generate_individual
\* and never fails at Initializing; its working population starts as the
\* supplied sequence, whatever its length and whatever population_size is.
C18_SuppliedIsUsed ==
    /\ [](Supplied =>
            /\ ops.generate = 0
            /\ error.at \notin {"initializing", "generating"}
            /\ error.what # "unimplemented"
            /\ pc # "generating"
            /\ (gen = 0 /\ pc # "initializing") => population = Initial)
    /\ [][(Supplied /\ pc = "initializing") =>
              /\ population' = Initial
              /\ pc' # "panicked"
              /\ ops' = NoOps]_vars

\* The first iteration works on the two supplied candidates of an engine
\* configured for more.
C18_Witness ==
    /\ Supplied
    /\ pc = "recombining"
    /\ gen = 0
    /\ Len(Initial) = 2
    /\ ga.population_size > 2
    /\ population = Initial
    /\ Len(parents) = 2

====
